---- MODULE Spec2Model ----
(***************************************************************************)
(* Model of the website-cloner frontend:                                   *)
(*   - sanitizeHTML, parseHTMLToTree, TreeView, handleSubmit and           *)
(*     handleCloneWebsite of ScraperPage (frontend/src/app/page.tsx),      *)
(*   - ResultsPage with processImageUrls and fetchGeneratedHtml,           *)
(*   - the earlier ScraperPage whose handleCloneWebsite calls the clone    *)
(*     collaborator itself.                                                *)
(* Strings are sequences of one-character strings, so that every regular   *)
(* expression of the code is matched character by character.               *)
(***************************************************************************)
EXTENDS Integers, Sequences, FiniteSets, TLC

VARIABLES
    \* --- sanitizeHTML pipeline (SpecSanitize)
    htmlString,     \* the html given to sanitizeHTML
    baseUrl,        \* its second argument
    cleanHTML,      \* the string it returns, every character with its origin
    cleanTwice,     \* sanitizeHTML applied to its own result
    sanPc,          \* "start" | "once" | "twice"
    \* --- ResultsPage post-processing (SpecPost)
    generatedHtml,  \* data.generated_html
    injected,       \* the __html handed to dangerouslySetInnerHTML
    postPc,         \* "loaded" | "rendered"
    \* --- parseHTMLToTree (SpecTree)
    markup,         \* the html given to parseHTMLToTree
    treeNodes,      \* the TreeNode[] it returns
    treePc,         \* "start" | "built"
    \* --- TreeView (SpecPresenter)
    viewNodes,      \* the TreeNode[] rendered
    isExpanded,     \* path of a mounted TreeView -> its isExpanded state
    toggled,        \* path -> the node toggled itself an odd number of times
    activations,    \* number of clicks so far
    \* --- the pages (Spec)
    variant,        \* which ScraperPage source is in use: "page" | "inline"
    route,          \* the page mounted: "scraper" | "results"
    page,           \* the number of the mounted page instance
    query,          \* the query of the results route
    scraper,        \* the state of ScraperPage
    results,        \* the state of ResultsPage
    effectPending,  \* the effect of ResultsPage has yet to run
    requests,       \* the collaborator requests in flight
    issued          \* number of requests issued so far

sanVars == <<htmlString, baseUrl, cleanHTML, cleanTwice, sanPc>>

postVars == <<generatedHtml, injected, postPc>>

treeVars == <<markup, treeNodes, treePc>>

viewVars == <<viewNodes, isExpanded, toggled, activations>>

uiVars == <<variant, route, page, query, scraper, results, effectPending, requests, issued>>

vars == <<sanVars, postVars, treeVars, viewVars, uiVars>>

\* what the actions of one specification leave alone
notSan == <<postVars, treeVars, viewVars, uiVars>>

notPost == <<sanVars, treeVars, viewVars, uiVars>>

notTree == <<sanVars, postVars, viewVars, uiVars>>

notView == <<sanVars, postVars, treeVars, uiVars>>

notUi == <<sanVars, postVars, treeVars, viewVars>>

(***************************************************************************)
(* Characters and strings                                                  *)
(***************************************************************************)
DQ == "\""

UpperCase ==
    <<"A","B","C","D","E","F","G","H","I","J","K","L","M",
      "N","O","P","Q","R","S","T","U","V","W","X","Y","Z">>

LowerCase ==
    <<"a","b","c","d","e","f","g","h","i","j","k","l","m",
      "n","o","p","q","r","s","t","u","v","w","x","y","z">>

\* String.prototype.toLowerCase on one character (the regex flag i folds case)
ToLower(c) ==
    IF \E k \in 1..Len(UpperCase) : UpperCase[k] = c
    THEN LowerCase[CHOOSE k \in 1..Len(UpperCase) : UpperCase[k] = c]
    ELSE c

Letters == {LowerCase[k] : k \in 1..Len(LowerCase)}

RECURSIVE Concat(_)
Concat(ss) == IF ss = <<>> THEN <<>> ELSE Head(ss) \o Concat(Tail(ss))

\* pat occurs in s at index i, compared case-sensitively
MatchAt(s, i, pat) ==
    /\ i >= 1
    /\ i + Len(pat) - 1 <= Len(s)
    /\ SubSeq(s, i, i + Len(pat) - 1) = pat

\* pat (given in lower case) occurs in s at index i, ignoring case
MatchAtCI(s, i, pat) ==
    /\ i >= 1
    /\ i + Len(pat) - 1 <= Len(s)
    /\ \A k \in 1..Len(pat) : ToLower(s[i + k - 1]) = pat[k]

\* least element of a non-empty set of indices
Least(S) == CHOOSE x \in S : \A y \in S : x <= y

\* least index j >= i with s[j] = c, or 0
IndexOfChar(s, i, c) ==
    LET js == {j \in i..Len(s) : s[j] = c}
    IN IF js = {} THEN 0 ELSE Least(js)

\* least index j >= i where pat occurs ignoring case, or 0
IndexOfCI(s, i, pat) ==
    LET js == {j \in i..Len(s) : MatchAtCI(s, j, pat)}
    IN IF js = {} THEN 0 ELSE Least(js)

Contains(s, pat) == \E i \in 1..Len(s) : MatchAt(s, i, pat)

(***************************************************************************)
(* A traced string: the characters s and, for every character, the index   *)
(* o it had in the original input (0 for a character the code inserted).   *)
(***************************************************************************)
Traced(s) == [s |-> s, o |-> [i \in 1..Len(s) |-> i]]

Zeros(n) == [i \in 1..n |-> 0]

(***************************************************************************)
(* sanitizeHTML                                                            *)
(***************************************************************************)
SrcOpen  == <<"s","r","c","=",DQ>>
HrefOpen == <<"h","r","e","f","=",DQ>>
UrlOpen  == <<"u","r","l","(">>
Openers  == {SrcOpen, HrefOpen, UrlOpen}

AssetsPath == <<"/","a","s","s","e","t","s","/">>
RootPathNone == <<>>
RootPath   == <<"/">>
VideosPath == <<"/","v","i","d","e","o","s","/">>

tagsToRemove == << <<"m","e","t","a">>, <<"n","o","s","c","r","i","p","t">> >>

\* str.replace(/<opener><path>/g, `<opener>${url}<path>`): one left-to-right
\* pass over non-overlapping matches; the replacement is not rescanned
RECURSIVE PrefixScan(_, _, _, _, _, _)
PrefixScan(t, i, opener, path, url, acc) ==
    LET js == {j \in i..Len(t.s) : MatchAt(t.s, j, opener \o path)}
    IN IF js = {}
       THEN [s |-> acc.s \o SubSeq(t.s, i, Len(t.s)),
             o |-> acc.o \o SubSeq(t.o, i, Len(t.o))]
       ELSE LET j == Least(js)
                n == Len(opener)
                m == Len(opener \o path)
            IN PrefixScan(t, j + m, opener, path, url,
                   [s |-> acc.s \o SubSeq(t.s, i, j - 1) \o opener \o url \o path,
                    o |-> acc.o \o SubSeq(t.o, i, j + n - 1) \o Zeros(Len(url))
                                \o SubSeq(t.o, j + n, j + m - 1)])

PrefixAll(t, opener, path, url) ==
    IF Len(opener \o path) = 0 THEN t
    ELSE PrefixScan(t, 1, opener, path, url, [s |-> <<>>, o |-> <<>>])

\* the three replaces of one path family: src=", href=", url(
PrefixFamily(t, path, url) ==
    PrefixAll(PrefixAll(PrefixAll(t, SrcOpen, path, url), HrefOpen, path, url),
              UrlOpen, path, url)

\* steps 1-3: /assets/, then bare /, then /videos/
RewriteUrls(t, url) ==
    PrefixFamily(PrefixFamily(PrefixFamily(t, AssetsPath, url), RootPath, url),
                 VideosPath, url)

\* end of the match of /<tag[^>]*>.*?<\/tag>/is starting at i, or 0:
\* [^>]* stops at the first ">", .*? at the first closing tag after it
PairedEnd(s, i, tag) ==
    IF ~MatchAtCI(s, i, <<"<">> \o tag) THEN 0
    ELSE LET gt == IndexOfChar(s, i + 1 + Len(tag), ">")
         IN IF gt = 0 THEN 0
            ELSE LET cl == IndexOfCI(s, gt + 1, <<"<","/">> \o tag \o <<">">>)
                 IN IF cl = 0 THEN 0 ELSE cl + Len(tag) + 2

\* end of the match of /<tag[^>]*\/?>/i starting at i, or 0
LoneEnd(s, i, tag) ==
    IF ~MatchAtCI(s, i, <<"<">> \o tag) THEN 0
    ELSE IndexOfChar(s, i + 1 + Len(tag), ">")

\* cleanHTML.replace(regex, ''), the regex given by its match-end function
RECURSIVE RemoveScan(_, _, _, _, _)
RemoveScan(t, i, tag, paired, acc) ==
    LET End(j) == IF paired THEN PairedEnd(t.s, j, tag) ELSE LoneEnd(t.s, j, tag)
        js == {j \in i..Len(t.s) : End(j) > 0}
    IN IF js = {}
       THEN [s |-> acc.s \o SubSeq(t.s, i, Len(t.s)),
             o |-> acc.o \o SubSeq(t.o, i, Len(t.o))]
       ELSE LET j == Least(js)
            IN RemoveScan(t, End(j) + 1, tag, paired,
                   [s |-> acc.s \o SubSeq(t.s, i, j - 1),
                    o |-> acc.o \o SubSeq(t.o, i, j - 1)])

\* body of tagsToRemove.forEach: the paired regex, then the lone-tag regex
RemoveTag(t, tag) ==
    LET empty == [s |-> <<>>, o |-> <<>>]
    IN RemoveScan(RemoveScan(t, 1, tag, TRUE, empty), 1, tag, FALSE, empty)

RemoveTags(t) == RemoveTag(RemoveTag(t, tagsToRemove[1]), tagsToRemove[2])

sanitizeHTML(t, url) == RemoveTags(RewriteUrls(t, url))

(***************************************************************************)
(* SpecSanitize: sanitizeHTML applied to bounded inputs                    *)
(***************************************************************************)
MaxFrags == 3

AbsValue == <<"h",":","/","/","c","/","a">>

MetaOpen      == <<"<","m","e","t","a",">">>
MetaClose     == <<"<","/","m","e","t","a",">">>
NoscriptOpen  == <<"<","n","o","s","c","r","i","p","t",">">>
NoscriptClose == <<"<","/","n","o","s","c","r","i","p","t",">">>

\* the pieces the input html is put together from
Fragments ==
    << SrcOpen,
       <<"/","x",DQ>>,
       AssetsPath \o <<"a",DQ>>,
       VideosPath \o <<"v",DQ>>,
       AbsValue \o <<DQ>>,
       HrefOpen \o <<"/","x",DQ>>,
       UrlOpen \o <<"/","x",")">>,
       UrlOpen \o AbsValue \o <<")">>,
       MetaOpen,
       MetaClose,
       NoscriptOpen,
       NoscriptClose,
       <<"<","m","e">>,
       <<"t","a",">">>,
       <<"<","M","E","T","A",">">>,
       SrcOpen \o <<"h",":","/","/","c","/">> \o UrlOpen \o <<"/","x",")",DQ>> >>

FragmentChoices == UNION {[1..n -> 1..Len(Fragments)] : n \in 0..MaxFrags}

HtmlInputs == {Concat([i \in DOMAIN f |-> Fragments[f[i]]]) : f \in FragmentChoices}

\* non-empty absolute base URLs
BaseUrls == { <<"h",":","/","/","e">>, <<"g",":","/","/","f",".","o">> }

SanIdle ==
    /\ htmlString = <<>>
    /\ baseUrl = <<>>
    /\ cleanHTML = Traced(<<>>)
    /\ cleanTwice = <<>>
    /\ sanPc = "idle"

SanInit ==
    /\ htmlString \in HtmlInputs
    /\ baseUrl \in BaseUrls
    /\ cleanHTML = Traced(<<>>)
    /\ cleanTwice = <<>>
    /\ sanPc = "start"

\* cleanHTML = sanitizeHTML(htmlString, baseUrl)
Sanitize ==
    /\ sanPc = "start"
    /\ cleanHTML' = sanitizeHTML(Traced(htmlString), baseUrl)
    /\ sanPc' = "once"
    /\ UNCHANGED <<htmlString, baseUrl, cleanTwice>>
    /\ UNCHANGED notSan

\* cleanTwice = sanitizeHTML(sanitizeHTML(htmlString, baseUrl), baseUrl)
SanitizeAgain ==
    /\ sanPc = "once"
    /\ cleanTwice' = sanitizeHTML(Traced(cleanHTML.s), baseUrl).s
    /\ sanPc' = "twice"
    /\ UNCHANGED <<htmlString, baseUrl, cleanHTML>>
    /\ UNCHANGED notSan

SanNext == Sanitize \/ SanitizeAgain

(***************************************************************************)
(* Claims about sanitizeHTML                                               *)
(***************************************************************************)
Slash == <<"/">>

Terminator(opener) == IF opener = UrlOpen THEN ")" ELSE DQ

\* the value starting at index v of h begins with letters followed by ":"
StartsWithScheme(h, v) ==
    \E k \in 1..(Len(h) - v) :
        /\ \A j \in v..(v + k - 1) : h[j] \in Letters
        /\ h[v + k] = ":"

\* <<p, q>>: an opener at p whose value starts with a scheme, through its
\* terminator at q (or the end of the text)
AbsRefs(h) ==
    { pq \in (1..Len(h)) \X (1..Len(h)) :
        \E op \in Openers :
            /\ MatchAt(h, pq[1], op)
            /\ StartsWithScheme(h, pq[1] + Len(op))
            /\ LET e == IndexOfChar(h, pq[1] + Len(op), Terminator(op))
               IN pq[2] = IF e = 0 THEN Len(h) ELSE e }

\* the characters p..q of the input stand in the output, adjacent and in order
Intact(out, h, p, q) ==
    \E j \in 1..Len(out.o) :
        /\ j + (q - p) <= Len(out.o)
        /\ \A k \in 0..(q - p) : out.o[j + k] = p + k /\ out.s[j + k] = h[p + k]

Survives(out, k) == \E j \in 1..Len(out.o) : out.o[j] = k

\* some character of p..q was deleted
Cut(out, p, q) == \E k \in p..q : ~Survives(out, k)

\* a root-relative opener of its own inside p..q
Nested(h, p, q) ==
    \E i \in (p + 1)..q : \E op \in Openers :
        MatchAt(h, i, op \o Slash) /\ i + Len(op) <= q

\* the opener of an absolute reference is never separated from its value
NeverPrefixed(out, h) ==
    \A pq \in AbsRefs(h) : \E op \in Openers :
        /\ MatchAt(h, pq[1], op)
        /\ LET v == pq[1] + Len(op)
           IN \A j \in 1..Len(out.o) :
                (out.o[j] = v - 1 /\ Survives(out, v)) =>
                    (j < Len(out.o) /\ out.o[j + 1] = v)

\* C1 as stated: every reference of the input whose value starts with a
\* scheme stands byte-identical in the output of sanitizeHTML.
C1_AbsoluteRefsIdentical ==
    sanPc = "once" =>
        \A pq \in AbsRefs(htmlString) : Intact(cleanHTML, htmlString, pq[1], pq[2])

\* C1 amended: the base URL is never put in front of a reference whose value
\* starts with a scheme, and such a reference stands byte-identical in the
\* output unless step 4 deleted some of its characters or its value holds a
\* root-relative opener of its own.
C1_AbsoluteRefsKept ==
    sanPc = "once" =>
        /\ NeverPrefixed(cleanHTML, htmlString)
        /\ \A pq \in AbsRefs(htmlString) :
              ~Nested(htmlString, pq[1], pq[2]) =>
                  \/ Cut(cleanHTML, pq[1], pq[2])
                  \/ Intact(cleanHTML, htmlString, pq[1], pq[2])

\* an absolute reference kept whole beside a root-relative one that was prefixed
C1_Witness ==
    /\ sanPc = "once"
    /\ \E pq \in AbsRefs(htmlString) :
          /\ ~Nested(htmlString, pq[1], pq[2])
          /\ ~Cut(cleanHTML, pq[1], pq[2])
    /\ \E j \in 1..Len(cleanHTML.o) : cleanHTML.o[j] = 0

\* s holds an opening tag named tag, in any letter case
HasOpeningTag(s, tag) ==
    \E i \in 1..Len(s) :
        /\ MatchAtCI(s, i, <<"<">> \o tag)
        /\ i + 1 + Len(tag) <= Len(s)
        /\ s[i + 1 + Len(tag)] \in {">", " ", "/"}
        /\ IndexOfChar(s, i + 1 + Len(tag), ">") # 0

\* C3: the output of sanitizeHTML holds no opening tag named meta or noscript.
C3_NoRemovedTagRemains ==
    sanPc = "once" =>
        \A n \in DOMAIN tagsToRemove : ~HasOpeningTag(cleanHTML.s, tagsToRemove[n])

\* C4: one call leaves no src="/, href="/ or url(/ and a second call with the
\* same base changes nothing.
C4_Idempotent ==
    sanPc = "twice" =>
        /\ \A op \in Openers : ~Contains(cleanHTML.s, op \o Slash)
        /\ cleanTwice = cleanHTML.s

(***************************************************************************)
(* ResultsPage: the clone post-processor                                   *)
(***************************************************************************)
NL == "\n"

Digits == {"0","1","2","3","4","5","6","7","8","9"}

HexDigits == Digits \cup {"A","B","C","D","E","F","a","b","c","d","e","f"}

\* the percent escapes the inputs can hold, with the character each stands for
EscapeTable ==
    [e \in { <<"3","A">>, <<"2","F">>, <<"2","6">>, <<"2","2">>, <<"2","5">> } |->
        CASE e = <<"3","A">> -> ":"
          [] e = <<"2","F">> -> "/"
          [] e = <<"2","6">> -> "&"
          [] e = <<"2","2">> -> DQ
          [] e = <<"2","5">> -> "%"]

\* decodeURIComponent: [ok |-> FALSE] stands for the URIError it throws on a
\* "%" that is not followed by two hexadecimal digits
RECURSIVE DecodeScan(_, _, _)
DecodeScan(s, i, acc) ==
    LET j == IndexOfChar(s, i, "%")
    IN IF j = 0 THEN [ok |-> TRUE, s |-> acc \o SubSeq(s, i, Len(s))]
       ELSE IF j + 2 > Len(s) \/ s[j + 1] \notin HexDigits \/ s[j + 2] \notin HexDigits
       THEN [ok |-> FALSE, s |-> <<>>]
       ELSE IF <<s[j + 1], s[j + 2]>> \notin DOMAIN EscapeTable
       THEN [ok |-> FALSE, s |-> <<>>]
       ELSE DecodeScan(s, j + 3,
                acc \o SubSeq(s, i, j - 1) \o <<EscapeTable[<<s[j + 1], s[j + 2]>>]>>)

decodeURIComponent(s) == DecodeScan(s, 1, <<>>)

\* str.replace(/pat/g, '') for a literal pat with an optional extra character
\* before (lead) or after (trail) it
RECURSIVE StripScan(_, _, _, _, _, _)
StripScan(s, i, lead, pat, trail, acc) ==
    LET End(j) == IF lead # <<>> /\ MatchAt(s, j, lead \o pat)
                  THEN j + Len(lead \o pat)
                  ELSE IF trail # <<>> /\ MatchAt(s, j, pat \o trail)
                  THEN j + Len(pat \o trail)
                  ELSE IF MatchAt(s, j, pat) THEN j + Len(pat)
                  ELSE 0
        js == {j \in i..Len(s) : End(j) > 0}
    IN IF js = {} THEN acc \o SubSeq(s, i, Len(s))
       ELSE LET j == Least(js)
            IN StripScan(s, End(j), lead, pat, trail, acc \o SubSeq(s, i, j - 1))

\* the grave accent, which a TLA+ string cannot hold
BT == "grave"

FenceOpen == <<BT,BT,BT,"h","t","m","l">>

FenceClose == <<BT,BT,BT>>

\* the two replaces of the render: the opening fence with an optional newline
\* after it, then the closing fence with an optional newline before it
StripFences(s) ==
    StripScan(StripScan(s, 1, <<>>, FenceOpen, <<NL>>, <<>>),
              1, <<NL>>, FenceClose, <<>>, <<>>)

\* src="https://www.orchids.app/_next/image?url=
ProxyPrefix ==
    <<"s","r","c","=",DQ,"h","t","t","p","s",":","/","/","w","w","w",".","o",
    "r","c","h","i","d","s",".","a","p","p","/","_","n","e","x","t","/","i",
    "m","a","g","e","?","u","r","l","=">>

\* index after the longest run of characters outside stop, starting at i
RunEnd(s, i, stop) ==
    LET js == {j \in i..Len(s) : s[j] \in stop}
    IN IF js = {} THEN Len(s) + 1 ELSE Least(js)

\* index after the longest run of digits starting at i
DigitsEnd(s, i) ==
    LET js == {j \in i..Len(s) : s[j] \notin Digits}
    IN IF js = {} THEN Len(s) + 1 ELSE Least(js)

\* the match of /<prefix>([^"&]+)(?:&[^"]*)?"/ at i: [from, to) is the
\* captured group and last the index of the closing quote; last = 0: no match
ProxyMatch(s, i, prefix) ==
    LET none == [from |-> 0, to |-> 0, last |-> 0]
    IN IF ~MatchAt(s, i, prefix) THEN none
       ELSE LET a == i + Len(prefix)
                b == RunEnd(s, a, {DQ, "&"})
            IN IF b = a \/ b > Len(s) THEN none
               ELSE IF s[b] = DQ THEN [from |-> a, to |-> b, last |-> b]
               ELSE LET q == IndexOfChar(s, b + 1, DQ)
                    IN IF q = 0 THEN none ELSE [from |-> a, to |-> b, last |-> q]

\* first replace of processImageUrls; a URIError of the callback ends it
RECURSIVE UnwrapScan(_, _, _, _)
UnwrapScan(s, i, prefix, acc) ==
    LET js == {j \in i..Len(s) : ProxyMatch(s, j, prefix).last # 0}
    IN IF js = {} THEN [ok |-> TRUE, s |-> acc \o SubSeq(s, i, Len(s))]
       ELSE LET j == Least(js)
                m == ProxyMatch(s, j, prefix)
                decodedUrl == decodeURIComponent(SubSeq(s, m.from, m.to - 1))
            IN IF ~decodedUrl.ok THEN [ok |-> FALSE, s |-> <<>>]
               ELSE UnwrapScan(s, m.last + 1, prefix,
                        acc \o SubSeq(s, i, j - 1) \o SrcOpen \o decodedUrl.s \o <<DQ>>)

AmpW == <<"&","a","m","p",";","w","=">>
AmpQ == <<"&","a","m","p",";","q","=">>
Amp  == <<"&","a","m","p",";">>

\* &amp;w=\d+&amp;q=\d+" occurs at j and its quote is at index e
SizeSuffixAt(s, j, e) ==
    /\ MatchAt(s, j, AmpW)
    /\ LET d1 == DigitsEnd(s, j + Len(AmpW))
       IN /\ d1 > j + Len(AmpW)
          /\ MatchAt(s, d1, AmpQ)
          /\ LET d2 == DigitsEnd(s, d1 + Len(AmpQ))
             IN d2 > d1 + Len(AmpQ) /\ d2 = e

\* second replace: /src="([^"]*?)&amp;w=\d+&amp;q=\d+"/g by src="$1"; the
\* match at i runs to the first quote after the opener, [^"]*? to the first
\* place where the rest of the pattern fits
RECURSIVE SizeScan(_, _, _)
SizeScan(s, i, acc) ==
    LET Quote(j) == IF MatchAt(s, j, SrcOpen)
                    THEN IndexOfChar(s, j + Len(SrcOpen), DQ) ELSE 0
        Fits(j) == IF Quote(j) = 0 THEN {}
                   ELSE {k \in (j + Len(SrcOpen))..Quote(j) : SizeSuffixAt(s, k, Quote(j))}
        js == {j \in i..Len(s) : Fits(j) # {}}
    IN IF js = {} THEN acc \o SubSeq(s, i, Len(s))
       ELSE LET j == Least(js)
                k == Least(Fits(j))
            IN SizeScan(s, Quote(j) + 1,
                   acc \o SubSeq(s, i, j - 1) \o SrcOpen
                       \o SubSeq(s, j + Len(SrcOpen), k - 1) \o <<DQ>>)

\* third replace: /&amp;/g by &
RECURSIVE AmpScan(_, _, _)
AmpScan(s, i, acc) ==
    LET js == {j \in i..Len(s) : MatchAt(s, j, Amp)}
    IN IF js = {} THEN acc \o SubSeq(s, i, Len(s))
       ELSE LET j == Least(js)
            IN AmpScan(s, j + Len(Amp), acc \o SubSeq(s, i, j - 1) \o <<"&">>)

processImageUrls(html) ==
    LET first == UnwrapScan(html, 1, ProxyPrefix, <<>>)
    IN IF ~first.ok THEN first
       ELSE [ok |-> TRUE, s |-> AmpScan(SizeScan(first.s, 1, <<>>), 1, <<>>)]

(***************************************************************************)
(* SpecPost: the markup ResultsPage injects for a generated_html            *)
(***************************************************************************)
MaxPostFrags == 3

\* src="https://site/_next/image?url=
SiteProxyPrefix ==
    <<"s","r","c","=",DQ,"h","t","t","p","s",":","/","/","s","i","t","e","/",
    "_","n","e","x","t","/","i","m","a","g","e","?","u","r","l","=">>

\* https://cdn/img.png, percent-encoded, and decoded
EncodedTarget ==
    <<"h","t","t","p","s","%","3","A","%","2","F","%","2","F","c","d","n","%",
    "2","F","i","m","g",".","p","n","g">>

Target == <<"h","t","t","p","s",":","/","/","c","d","n","/","i","m","g",".","p","n","g">>

PlainTail == <<"&","w","=","6","4","0","&","q","=","7","5",DQ>>

EscapedTail == <<"&","a","m","p",";","w","=","6","4","0","&","a","m","p",";","q","=","7","5",DQ>>

PostFragments ==
    << ProxyPrefix,
       SiteProxyPrefix,
       EncodedTarget,
       PlainTail,
       EscapedTail,
       <<DQ>>,
       FenceOpen \o <<NL>>,
       <<NL>> \o FenceClose,
       Amp,
       SrcOpen \o Target,
       <<"%">> >>

PostChoices == UNION {[1..n -> 1..Len(PostFragments)] : n \in 0..MaxPostFrags}

GeneratedInputs == {Concat([i \in DOMAIN f |-> PostFragments[f[i]]]) : f \in PostChoices}

PostInit ==
    /\ generatedHtml \in GeneratedInputs
    /\ injected = [ok |-> TRUE, s |-> <<>>]
    /\ postPc = "loaded"

PostIdle ==
    /\ generatedHtml = <<>>
    /\ injected = [ok |-> TRUE, s |-> <<>>]
    /\ postPc = "idle"

\* the __html ResultsPage hands to dangerouslySetInnerHTML
RenderGenerated ==
    /\ postPc = "loaded"
    /\ injected' = processImageUrls(StripFences(generatedHtml))
    /\ postPc' = "rendered"
    /\ UNCHANGED generatedHtml
    /\ UNCHANGED notPost

PostNext == RenderGenerated

(***************************************************************************)
(* parseHTMLToTree                                                         *)
(* The parsed document is a sequence of nodes, each with the index of its  *)
(* parent (0: the Document); a node's children are the nodes naming it,    *)
(* in index order.  Nodes 1, 2, 3 are html, head and body.                 *)
(***************************************************************************)
Whitespace == {" ", NL}

VoidTags == { <<"b","r">> }

\* elements of the "special" category that the inputs can open
SpecialTags == { <<"d","i","v">>, <<"b","o","d","y">>, <<"h","t","m","l">> }

\* the attributes field of a node without attributes: undefined, which the
\* code yields exactly for the empty attribute map
Undefined == <<>>

ElementNode(name, attrs, parent) ==
    [type |-> "element", name |-> name, attrs |-> attrs, data |-> <<>>, parent |-> parent]

TextNode(data, parent) ==
    [type |-> "text", name |-> <<>>, attrs |-> <<>>, data |-> data, parent |-> parent]

CommentNode(data, parent) ==
    [type |-> "comment", name |-> <<>>, attrs |-> <<>>, data |-> data, parent |-> parent]

\* attributes of a start tag, between index i and the ">" at index e:
\* a sequence of <<name, value>> for every name="value"
RECURSIVE ScanAttributes(_, _, _, _)
ScanAttributes(s, i, e, acc) ==
    LET a == Least({j \in i..e : s[j] \notin Whitespace \cup {"/"}})
    IN IF a >= e THEN acc
       ELSE LET eq == RunEnd(s, a, {"=", ">", " "})
                name == [k \in 1..(eq - a) |-> ToLower(s[a + k - 1])]
            IN IF s[eq] # "=" \/ s[eq + 1] # DQ
               THEN ScanAttributes(s, eq, e, Append(acc, <<name, <<>> >>))
               ELSE LET q == IndexOfChar(s, eq + 2, DQ)
                    IN ScanAttributes(s, q + 1, e,
                           Append(acc, <<name, SubSeq(s, eq + 2, q - 1)>>))

CommentOpen  == <<"<","!","-","-">>
CommentClose == <<"-","-",">">>

\* the tokens of the tokenizer, for text made of complete tags, comments
\* and characters
RECURSIVE Tokenize(_, _, _)
Tokenize(s, i, acc) ==
    IF i > Len(s) THEN acc
    ELSE IF MatchAt(s, i, CommentOpen)
    THEN LET ends == {j \in (i + 4)..Len(s) : MatchAt(s, j, CommentClose)}
             e == IF ends = {} THEN Len(s) + 1 ELSE Least(ends)
         IN Tokenize(s, e + 3,
                Append(acc, [kind |-> "comment", name |-> <<>>, attrs |-> <<>>,
                             data |-> SubSeq(s, i + 4, e - 1)]))
    ELSE IF s[i] = "<" /\ i < Len(s) /\ ToLower(s[i + 1]) \in Letters
    THEN LET e == IndexOfChar(s, i, ">")
             n == RunEnd(s, i + 1, {" ", "/", ">"})
         IN IF e = 0 THEN acc
            ELSE Tokenize(s, e + 1,
                    Append(acc, [kind |-> "start",
                                 name |-> [k \in 1..(n - i - 1) |-> ToLower(s[i + k])],
                                 attrs |-> ScanAttributes(s, n, e, <<>>),
                                 data |-> <<>>]))
    ELSE IF MatchAt(s, i, <<"<","/">>) /\ i + 1 < Len(s) /\ ToLower(s[i + 2]) \in Letters
    THEN LET e == IndexOfChar(s, i, ">")
             n == RunEnd(s, i + 2, {" ", "/", ">"})
         IN IF e = 0 THEN acc
            ELSE Tokenize(s, e + 1,
                    Append(acc, [kind |-> "end",
                                 name |-> [k \in 1..(n - i - 2) |-> ToLower(s[i + k + 1])],
                                 attrs |-> <<>>, data |-> <<>>]))
    ELSE Tokenize(s, i + 1,
            Append(acc, [kind |-> "char", name |-> <<>>, attrs |-> <<>>,
                         data |-> <<s[i]>>]))

ChildIds(nodes, id) == {k \in 1..Len(nodes) : nodes[k].parent = id}

Greatest(S) == CHOOSE x \in S : \A y \in S : x >= y

\* the tree builder on one token; st.open is the stack of open elements and
\* st.inBody tells that the first token that opens the body was seen
TreeStep(st, tok) ==
    LET cur == st.open[Len(st.open)]
        kids == ChildIds(st.nodes, cur)
    IN CASE tok.kind = "char" ->
              IF ~st.inBody /\ tok.data[1] \in Whitespace THEN st
              ELSE IF kids # {} /\ st.nodes[Greatest(kids)].type = "text"
              THEN [st EXCEPT !.inBody = TRUE,
                              !.nodes[Greatest(kids)].data = @ \o tok.data]
              ELSE [st EXCEPT !.inBody = TRUE,
                              !.nodes = Append(@, TextNode(tok.data, cur))]
         [] tok.kind = "comment" ->
              [st EXCEPT !.nodes =
                  Append(@, CommentNode(tok.data, IF st.inBody THEN cur ELSE 0))]
         [] tok.kind = "start" ->
              [st EXCEPT !.inBody = TRUE,
                         !.nodes = Append(@, ElementNode(tok.name, tok.attrs, cur)),
                         !.open = IF tok.name \in VoidTags THEN @
                                  ELSE Append(@, Len(st.nodes) + 1)]
         [] tok.kind = "end" ->
              IF ~st.inBody THEN st
              ELSE LET same == {k \in 1..Len(st.open) :
                                   st.nodes[st.open[k]].name = tok.name}
                       top == IF same = {} THEN 0 ELSE Greatest(same)
                       blocked == \E k \in (top + 1)..Len(st.open) :
                                      st.nodes[st.open[k]].name \in SpecialTags
                   IN IF top = 0 \/ (tok.name \notin SpecialTags /\ blocked) THEN st
                      ELSE [st EXCEPT !.open = SubSeq(@, 1, top - 1)]

RECURSIVE TreeBuild(_, _, _)
TreeBuild(st, toks, i) ==
    IF i > Len(toks) THEN st ELSE TreeBuild(TreeStep(st, toks[i]), toks, i + 1)

\* new DOMParser().parseFromString(html, 'text/html')
parseFromString(html) ==
    TreeBuild([nodes |-> << ElementNode(<<"h","t","m","l">>, <<>>, 0),
                            ElementNode(<<"h","e","a","d">>, <<>>, 1),
                            ElementNode(<<"b","o","d","y">>, <<>>, 1) >>,
               open |-> <<1, 3>>,
               inBody |-> FALSE],
              Tokenize(html, 1, <<>>), 1).nodes

\* doc.body: the third node
BodyElement == 3

\* doc.documentElement: the html element
documentElement == 1

\* String.prototype.trim
Trim(s) ==
    LET keep == {j \in 1..Len(s) : s[j] \notin Whitespace}
    IN IF keep = {} THEN <<>> ELSE SubSeq(s, Least(keep), Greatest(keep))

\* the elements of a set of indices, in increasing order
RECURSIVE Ascending(_)
Ascending(S) ==
    IF S = {} THEN <<>> ELSE <<Least(S)>> \o Ascending(S \ {Least(S)})

\* Array.prototype.join(' ')
RECURSIVE JoinSpace(_)
JoinSpace(ss) ==
    IF ss = <<>> THEN <<>>
    ELSE IF Len(ss) = 1 THEN ss[1]
    ELSE ss[1] \o <<" ">> \o JoinSpace(Tail(ss))

\* attributes[attr.name] = attr.value over element.attributes, in which the
\* parser keeps the first of several attributes of one name
AttributeMap(attrs) ==
    LET names == {attrs[k][1] : k \in 1..Len(attrs)}
    IN IF names = {} THEN Undefined
       ELSE [n \in names |-> attrs[Least({k \in 1..Len(attrs) : attrs[k][1] = n})][2]]

IsText(node) == node.type = "text"

IsElement(node) == node.type = "element"

\* the content field: the direct text children, trimmed, the empty ones
\* dropped, joined by a space
DirectText(nodes, id) ==
    LET texts == SelectSeq(Ascending(ChildIds(nodes, id)),
                           LAMBDA k : IsText(nodes[k]) /\ Trim(nodes[k].data) # <<>>)
    IN JoinSpace([k \in 1..Len(texts) |-> Trim(nodes[texts[k]].data)])

\* convertNodeToTree on an element; the nodes that are no elements yield
\* null and are filtered out of children
RECURSIVE convertNodeToTree(_, _)
convertNodeToTree(nodes, id) ==
    LET elems == SelectSeq(Ascending(ChildIds(nodes, id)), LAMBDA k : IsElement(nodes[k]))
    IN [name |-> nodes[id].name,
        children |-> [k \in 1..Len(elems) |-> convertNodeToTree(nodes, elems[k])],
        attributes |-> AttributeMap(nodes[id].attrs),
        content |-> DirectText(nodes, id)]

\* Array.from(root.childNodes).map(convertNodeToTree).filter(Boolean)
ConvertChildren(nodes, root) == convertNodeToTree(nodes, root).children

\* the elements at the top level of the markup: the element children of
\* the body the parser puts them in
TopLevelElements(html) == ConvertChildren(parseFromString(html), BodyElement)

parseHTMLToTree(html) == ConvertChildren(parseFromString(html), documentElement)

(***************************************************************************)
(* SpecTree: parseHTMLToTree applied to bounded markup                     *)
(***************************************************************************)
MaxTreeFrags == 3

DivX == <<"<","d","i","v",">","x","<","/","d","i","v",">">>

TreeFragments ==
    << <<"<","d","i","v",">">>,
       <<"<","/","d","i","v",">">>,
       <<"x">>,
       <<" ">>,
       <<"<","s","p","a","n",">">>,
       <<"<","/","s","p","a","n",">">>,
       <<"<","b","r",">">>,
       <<"<","!","-","-","c","-","-",">">>,
       <<"<","d","i","v"," ","i","d","=",DQ,"a",DQ,">">>,
       <<"<","D","I","V",">">> >>

TreeChoices == UNION {[1..n -> 1..Len(TreeFragments)] : n \in 0..MaxTreeFrags}

MarkupInputs == {Concat([i \in DOMAIN f |-> TreeFragments[f[i]]]) : f \in TreeChoices}

TreeInit ==
    /\ markup \in MarkupInputs
    /\ treeNodes = <<>>
    /\ treePc = "start"

TreeIdle ==
    /\ markup = <<>>
    /\ treeNodes = <<>>
    /\ treePc = "idle"

\* treeNodes = parseHTMLToTree(markup)
BuildTree ==
    /\ treePc = "start"
    /\ treeNodes' = parseHTMLToTree(markup)
    /\ treePc' = "built"
    /\ UNCHANGED markup
    /\ UNCHANGED notTree

TreeNext == BuildTree

(***************************************************************************)
(* TreeView                                                                *)
(* An instance is named by its path: the indices of the children followed  *)
(* from the array handed to the top-level map.  isExpanded holds the state *)
(* of the mounted instances only.                                          *)
(***************************************************************************)
RECURSIVE NodeAt(_, _)
NodeAt(nodes, path) ==
    IF Len(path) = 1 THEN nodes[path[1]]
    ELSE NodeAt(nodes[path[1]].children, Tail(path))

RECURSIVE PathsOf(_)
PathsOf(nodes) ==
    UNION { {<<i>>} \cup {<<i>> \o q : q \in PathsOf(nodes[i].children)} : i \in DOMAIN nodes }

\* the level prop: 0 at the top, level + 1 for a child
LevelOf(path) == Len(path) - 1

\* useState(level < 2)
InitialExpanded(path) == LevelOf(path) < 2

hasChildren(node) == Len(node.children) > 0

IsUnder(q, path) == Len(q) > Len(path) /\ SubSeq(q, 1, Len(path)) = path

\* the instances that rendering the children of an expanded instance mounts
RECURSIVE MountedUnder(_, _)
MountedUnder(nodes, path) ==
    UNION { {path \o <<i>>} \cup
            (IF InitialExpanded(path \o <<i>>) /\ hasChildren(NodeAt(nodes, path \o <<i>>))
             THEN MountedUnder(nodes, path \o <<i>>) ELSE {})
          : i \in DOMAIN NodeAt(nodes, path).children }

\* the first render of the array
FirstRender(nodes) ==
    LET mounted == UNION { {<<i>>} \cup
                           (IF hasChildren(nodes[i]) THEN MountedUnder(nodes, <<i>>) ELSE {})
                         : i \in DOMAIN nodes }
    IN [q \in mounted |-> InitialExpanded(q)]

\* onClick: hasChildren && setIsExpanded(!isExpanded), and the render it
\* causes: the children are rendered only under an expanded instance
Clicked(nodes, state, path) ==
    IF ~hasChildren(NodeAt(nodes, path)) THEN state
    ELSE IF state[path]
    THEN [q \in {r \in DOMAIN state : ~IsUnder(r, path)} |->
             IF q = path THEN FALSE ELSE state[q]]
    ELSE [q \in DOMAIN state \cup MountedUnder(nodes, path) |->
             IF q = path THEN TRUE
             ELSE IF q \in DOMAIN state THEN state[q] ELSE InitialExpanded(q)]

(***************************************************************************)
(* SpecPresenter: activations of the nodes of a rendered tree              *)
(***************************************************************************)
MaxActivations == 3

ViewTrees == {parseHTMLToTree(m) : m \in MarkupInputs}

ViewInit ==
    /\ viewNodes \in ViewTrees
    /\ isExpanded = FirstRender(viewNodes)
    /\ toggled = [q \in PathsOf(viewNodes) |-> FALSE]
    /\ activations = 0

ViewIdle ==
    /\ viewNodes = <<>>
    /\ isExpanded = <<>>
    /\ toggled = <<>>
    /\ activations = 0

\* the user clicks the header of a rendered node; toggled records whether
\* the node's own toggles so far are odd in number
Activate(path) ==
    /\ activations < MaxActivations
    /\ path \in DOMAIN isExpanded
    /\ isExpanded' = Clicked(viewNodes, isExpanded, path)
    /\ toggled' = IF hasChildren(NodeAt(viewNodes, path))
                  THEN [toggled EXCEPT ![path] = ~@] ELSE toggled
    /\ activations' = activations + 1
    /\ UNCHANGED viewNodes
    /\ UNCHANGED notView

ViewNext == \E path \in DOMAIN isExpanded : Activate(path)

(***************************************************************************)
(* ScraperPage and ResultsPage                                             *)
(* variant names the source of the ScraperPage in use: "page" is           *)
(* app/page.tsx, whose Clone button navigates to the results page, and     *)
(* "inline" is the ScraperPage that posts to clone-website itself.         *)
(* A page instance is named by the number of the navigation that mounted   *)
(* it; a set-state call of an instance that is no longer mounted is lost.  *)
(***************************************************************************)
\* null or undefined is the empty tuple and a value v is <<v>>
Null == <<>>

Some(v) == <<v>>

\* encodeURIComponent, on letters and the characters of EscapeTable
RECURSIVE encodeURIComponent(_)
encodeURIComponent(s) ==
    IF s = <<>> THEN <<>>
    ELSE (IF \E e \in DOMAIN EscapeTable : EscapeTable[e] = Head(s)
          THEN <<"%">> \o (CHOOSE e \in DOMAIN EscapeTable : EscapeTable[e] = Head(s))
          ELSE <<Head(s)>>) \o encodeURIComponent(Tail(s))

UrlKey == <<"u","r","l","=">>

\* the query router.push navigates to: url=<encoded>
ResultsQuery(url) == UrlKey \o encodeURIComponent(url)

\* searchParams.get('url') on a query holding at most the url parameter:
\* null when the parameter is absent
searchParamsGet(q) ==
    IF ~MatchAt(q, 1, UrlKey) THEN Null
    ELSE LET d == decodeURIComponent(SubSeq(q, Len(UrlKey) + 1, Len(q)))
         IN Some(IF d.ok THEN d.s ELSE SubSeq(q, Len(UrlKey) + 1, Len(q)))

\* JavaScript truthiness of a string that may be null
Truthy(v) == v # Null /\ Len(v[1]) > 0

(***************************************************************************)
(* The answers of the collaborators                                        *)
(***************************************************************************)
FailedToFetch == "Failed to fetch"

JsonSyntaxError == "Unexpected token < in JSON at position 0"

\* fetch rejects (settled = "rejected", with the message of the error) or
\* resolves with a status and a body; body tells what response.json() gives:
\*   "unreadable": it rejects;  "data": the payload with its html;
\*   "data_no_html": the payload without html;
\*   "detail_string" | "detail_array" | "detail_other": an ApiError
Answer(settled, ok, statusText, body, message) ==
    [settled |-> settled, ok |-> ok, status |-> IF ok THEN "200" ELSE "500",
     statusText |-> statusText, body |-> body, message |-> message]

Answers ==
    { Answer("rejected", FALSE, "", "unreadable", m) : m \in {FailedToFetch, ""} }
    \cup { Answer("resolved", TRUE, "OK", b, "") : b \in {"data", "data_no_html", "unreadable"} }
    \cup { Answer("resolved", FALSE, st, b, "") :
              st \in {"", "Internal Server Error"},
              b \in {"detail_string", "detail_array", "detail_other", "unreadable"} }

\* raw_html of a scraped page
ScrapedHtml == <<"<","a"," ","h","r","e","f","=",DQ,"/","x",DQ,">">>

\* generated_html of a clone
ClonedHtml == <<"<","p",">","x","<","/","p",">">>

\* the message of the Error handleSubmit throws for a non-2xx response
ErrorMessage(a) ==
    "Error " \o a.status \o ": " \o
        (CASE a.body = "detail_string" -> "Not reachable"
           [] a.body = "detail_array"  -> "value is not a valid url (for query.url_to_scrape)"
           [] OTHER -> a.statusText)

\* err.message of what the try block of handleSubmit throws: the rejection of
\* fetch, the rejection of response.json(), or the Error of a non-2xx response
ThrownMessage(a) ==
    IF a.settled = "rejected" THEN a.message
    ELSE IF a.body = "unreadable" THEN JsonSyntaxError
    ELSE ErrorMessage(a)

\* the try block throws: fetch rejects, response.json() rejects, or the
\* response is not ok
Throws(a) == a.settled = "rejected" \/ a.body = "unreadable" \/ ~a.ok

PleaseEnter == "Please enter a URL to scrape."

Unexpected == "An unexpected error occurred. Check the console."

ScrapingSuccessful == "Scraping successful"

(***************************************************************************)
(* Spec: the two pages, the user and the collaborators                     *)
(***************************************************************************)
MaxRequests == 3

MaxNavigations == 4

UrlA == <<"h",":","/","/","a">>

UrlB == <<"h",":","/","/","b">>

\* what the user can leave in the URL input
TypedUrls == {<<>>, UrlA, UrlB}

\* the queries of a direct visit of /results: no url, an empty one, a url
DirectQueries == {<<>>, UrlKey, ResultsQuery(UrlA)}

\* the useState initial values of ScraperPage
InitialScraper ==
    [urlToScrape |-> <<>>, scrapedContent |-> Null, isLoading |-> FALSE,
     error |-> Null, successMessage |-> Null, isCloning |-> FALSE]

\* the useState initial values of ResultsPage
InitialResults == [generatedHtml |-> Some(<<>>), isLoading |-> TRUE]

UiInit ==
    /\ variant \in {"page", "inline"}
    /\ page = 1
    /\ scraper = InitialScraper
    /\ results = InitialResults
    /\ requests = {}
    /\ issued = 0
    /\ \/ route = "scraper" /\ query = <<>> /\ effectPending = FALSE
       \/ route = "results" /\ query \in DirectQueries /\ effectPending = TRUE

UiIdle ==
    /\ variant = "page"
    /\ route = "idle"
    /\ page = 0
    /\ query = <<>>
    /\ scraper = InitialScraper
    /\ results = InitialResults
    /\ effectPending = FALSE
    /\ requests = {}
    /\ issued = 0

Request(kind, by, url) ==
    [id |-> issued + 1, kind |-> kind, by |-> by, page |-> page, url |-> url]

\* router.push('/results?url=...'): ScraperPage is unmounted and a new
\* ResultsPage is mounted, its effect still to run
PushResults(url) ==
    /\ page < MaxNavigations
    /\ route' = "results"
    /\ page' = page + 1
    /\ query' = ResultsQuery(url)
    /\ scraper' = InitialScraper
    /\ results' = InitialResults
    /\ effectPending' = TRUE

\* disabled={isLoading} of the submit button
SubmitDisabled == scraper.isLoading

\* disabled={isCloning} of the Clone button, which app/page.tsx does not set
CloneDisabled == variant = "inline" /\ scraper.isCloning

\* onChange of the URL input
Type(u) ==
    /\ route = "scraper"
    /\ scraper' = [scraper EXCEPT !.urlToScrape = u]
    /\ UNCHANGED <<variant, route, page, query, results, effectPending, requests, issued>>
    /\ UNCHANGED notUi

\* handleSubmit, to its await
Submit ==
    /\ route = "scraper"
    /\ ~SubmitDisabled
    /\ IF scraper.urlToScrape = <<>>
       THEN /\ scraper' = [scraper EXCEPT !.successMessage = Null,
                                          !.error = Some(PleaseEnter)]
            /\ UNCHANGED <<requests, issued>>
       ELSE /\ issued < MaxRequests
            /\ scraper' = [scraper EXCEPT !.successMessage = Null,
                                          !.isLoading = TRUE,
                                          !.scrapedContent = Null,
                                          !.error = Null]
            /\ requests' = requests \cup
                  {Request("scrape", "ScraperPage",
                           decodeURIComponent(encodeURIComponent(scraper.urlToScrape)).s)}
            /\ issued' = issued + 1
    /\ UNCHANGED <<variant, route, page, query, results, effectPending>>
    /\ UNCHANGED notUi

\* the ScrapedData of an ok answer
ScrapedData(r, a) ==
    [requested_url |-> r.url,
     raw_html |-> IF a.body = "data" THEN Some(ScrapedHtml) ELSE Null]

\* handleSubmit, from its await on: scrape-website answered request r with a
ScrapeSettle(r, a) ==
    /\ r \in requests
    /\ r.kind = "scrape"
    /\ requests' = requests \ {r}
    /\ IF r.page # page THEN UNCHANGED scraper
       ELSE IF Throws(a)
       THEN scraper' = [scraper EXCEPT
               !.error = Some(IF ThrownMessage(a) # "" THEN ThrownMessage(a) ELSE Unexpected),
               !.isLoading = FALSE]
       ELSE scraper' = [scraper EXCEPT
               !.scrapedContent = IF variant = "page" THEN Some(ScrapedData(r, a)) ELSE Null,
               !.successMessage = Some(ScrapingSuccessful),
               !.error = Null,
               !.isLoading = FALSE]
    /\ UNCHANGED <<variant, route, page, query, results, effectPending, issued>>
    /\ UNCHANGED notUi

\* handleCloneWebsite of app/page.tsx
handleCloneWebsite ==
    /\ variant = "page"
    /\ route = "scraper"
    /\ IF scraper.urlToScrape = <<>>
       THEN UNCHANGED <<route, page, query, scraper, results, effectPending>>
       ELSE PushResults(scraper.urlToScrape)
    /\ UNCHANGED <<variant, requests, issued>>
    /\ UNCHANGED notUi

\* handleCloneWebsite of the other ScraperPage, to its await
CloneFetch ==
    /\ variant = "inline"
    /\ route = "scraper"
    /\ ~CloneDisabled
    /\ IF scraper.urlToScrape = <<>>
       THEN UNCHANGED <<scraper, requests, issued>>
       ELSE /\ issued < MaxRequests
            /\ scraper' = [scraper EXCEPT !.isCloning = TRUE]
            /\ requests' = requests \cup
                  {Request("clone", "ScraperPage", scraper.urlToScrape)}
            /\ issued' = issued + 1
    /\ UNCHANGED <<variant, route, page, query, results, effectPending>>
    /\ UNCHANGED notUi

\* handleCloneWebsite of the other ScraperPage, from its await on
CloneSettle(r, a) ==
    /\ r \in requests
    /\ r.kind = "clone"
    /\ r.by = "ScraperPage"
    /\ requests' = requests \ {r}
    /\ IF a.settled = "rejected" \/ a.body = "unreadable"
       THEN /\ scraper' = IF r.page = page
                          THEN [scraper EXCEPT !.isCloning = FALSE] ELSE scraper
            /\ UNCHANGED <<route, page, query, results, effectPending>>
       ELSE PushResults(r.url)
    /\ UNCHANGED <<variant, issued>>
    /\ UNCHANGED notUi

\* the effect of ResultsPage: fetchGeneratedHtml, to its await
fetchGeneratedHtml ==
    /\ route = "results"
    /\ effectPending
    /\ effectPending' = FALSE
    /\ LET url == searchParamsGet(query)
       IN IF ~Truthy(url)
          THEN UNCHANGED <<results, requests, issued>>
          ELSE /\ issued < MaxRequests
               /\ results' = [results EXCEPT !.isLoading = TRUE]
               /\ requests' = requests \cup {Request("clone", "ResultsPage", url[1])}
               /\ issued' = issued + 1
    /\ UNCHANGED <<variant, route, page, query, scraper>>
    /\ UNCHANGED notUi

\* fetchGeneratedHtml, from its await on
GenerateSettle(r, a) ==
    /\ r \in requests
    /\ r.kind = "clone"
    /\ r.by = "ResultsPage"
    /\ requests' = requests \ {r}
    /\ IF r.page # page THEN UNCHANGED results
       ELSE IF a.settled = "rejected" \/ a.body = "unreadable"
       THEN results' = [results EXCEPT !.isLoading = FALSE]
       ELSE results' = [results EXCEPT
               !.generatedHtml = IF a.body = "data" THEN Some(ClonedHtml) ELSE Null,
               !.isLoading = FALSE]
    /\ UNCHANGED <<variant, route, page, query, scraper, effectPending, issued>>
    /\ UNCHANGED notUi

\* the browser's Back from a results page that router.push navigated to: a
\* new ScraperPage is mounted
Back ==
    /\ route = "results"
    /\ page > 1
    /\ ~effectPending
    /\ page < MaxNavigations
    /\ route' = "scraper"
    /\ page' = page + 1
    /\ query' = <<>>
    /\ scraper' = InitialScraper
    /\ results' = InitialResults
    /\ UNCHANGED <<variant, effectPending, requests, issued>>
    /\ UNCHANGED notUi

UiNext ==
    \/ \E u \in TypedUrls : Type(u)
    \/ Submit
    \/ \E r \in requests : \E a \in Answers : ScrapeSettle(r, a)
    \/ handleCloneWebsite
    \/ CloneFetch
    \/ \E r \in requests : \E a \in Answers : CloneSettle(r, a)
    \/ fetchGeneratedHtml
    \/ \E r \in requests : \E a \in Answers : GenerateSettle(r, a)
    \/ Back

(***************************************************************************)
(* Specifications                                                          *)
(***************************************************************************)
Init == UiInit /\ SanIdle /\ PostIdle /\ TreeIdle /\ ViewIdle

Spec == Init /\ [][UiNext]_vars

InitSanitize == SanInit /\ PostIdle /\ TreeIdle /\ ViewIdle /\ UiIdle

SpecSanitize == InitSanitize /\ [][SanNext]_vars

InitPost == PostInit /\ SanIdle /\ TreeIdle /\ ViewIdle /\ UiIdle

SpecPost == InitPost /\ [][PostNext]_vars

InitTree == TreeInit /\ SanIdle /\ PostIdle /\ ViewIdle /\ UiIdle

SpecTree == InitTree /\ [][TreeNext]_vars

InitPresenter == ViewInit /\ SanIdle /\ PostIdle /\ TreeIdle /\ UiIdle

SpecPresenter == InitPresenter /\ [][ViewNext]_vars

(***************************************************************************)
(* Claims about parseHTMLToTree                                            *)
(***************************************************************************)
\* the TreeNode of an element without attributes and without children
Childless(name, content) ==
    [name |-> name, children |-> <<>>, attributes |-> Undefined, content |-> content]

C5_OnlyOwnState ==
    [][ /\ viewNodes' = viewNodes
        /\ \A q \in DOMAIN isExpanded' :
              isExpanded'[q] = (InitialExpanded(q) # toggled'[q]) ]_vars

(***************************************************************************)
(* Claims about the pages                                                  *)
(***************************************************************************)
\* the page that issued r is mounted and shows its busy state
IssuerLoading(r) ==
    /\ r.page = page
    /\ CASE r.by = "ResultsPage" -> results.isLoading
         [] r.kind = "scrape" -> scraper.isLoading
         [] OTHER -> scraper.isCloning

\* the user can trigger another request of the kind
CanTrigger(kind) ==
    /\ route = "scraper"
    /\ IF kind = "scrape" THEN ~SubmitDisabled ELSE ~CloneDisabled

\* C6: while a scrape or clone request is in flight, the page that issued it
\* is in its Loading state and the affordance that triggers the request is
\* disabled, so that no two requests of one trigger are in flight together.
C6_NoOverlappingRequests ==
    /\ \A r \in requests : IssuerLoading(r) /\ ~CanTrigger(r.kind)
    /\ \A r1, r2 \in requests : r1.kind = r2.kind => r1 = r2

\* a fetch that throws, a non-2xx response, a body that cannot be read
IsFailure(a) == a.settled = "rejected" \/ ~a.ok \/ a.body = "unreadable"

\* the UI shows an error: a page with an error state holds a non-empty message
ErrorShown == route = "scraper" /\ Truthy(scraper.error)

\* C7: every failure of a collaborator call, on the scrape path and on the
\* clone path, ends with the error state of the UI set to a non-empty message.
C7_FailuresBecomeErrors ==
    [][ \A r \in requests : \A a \in Answers :
            ( /\ IsFailure(a)
              /\ r.page = page
              /\ ScrapeSettle(r, a) \/ CloneSettle(r, a) \/ GenerateSettle(r, a) )
            => ErrorShown' ]_vars

\* the scrape tree is rendered: scrapedContent && scrapedContent.raw_html
TreeRendered ==
    /\ route = "scraper"
    /\ scraper.scrapedContent # Null
    /\ Truthy(scraper.scrapedContent[1].raw_html)

\* the second argument of sanitizeHTML where the tree is rendered
SanitizeBaseUrl == scraper.urlToScrape

\* C9: whenever the scrape tree is rendered, the base URL passed to
\* sanitizeHTML is non-empty and is the URL of the request that produced the
\* snapshot on display.
C9_BaseUrlIsRequestUrl ==
    TreeRendered =>
        /\ SanitizeBaseUrl # <<>>
        /\ SanitizeBaseUrl = scraper.scrapedContent[1].requested_url

\* C10: on the results page, once the effect has run and no request of the
\* page is in flight, isLoading is false, whatever the url parameter is.
C10_LoadingIsLeft ==
    ( /\ route = "results"
      /\ ~effectPending
      /\ \A r \in requests : r.page # page )
    => ~results.isLoading

(***************************************************************************)
(* Claims about the clone post-processor                                   *)
(***************************************************************************)
ProxyPrefixes == {ProxyPrefix, SiteProxyPrefix}

\* C8: a src value <any origin>/_next/image?url=<encoded-target>&<parameters>
\* is replaced by the decoded target, whatever the proxy host is.
C8_ProxyUnwrappedAnyHost ==
    postPc = "rendered" =>
        \A prefix \in ProxyPrefixes : \A tail \in {PlainTail, EscapedTail} :
            generatedHtml = prefix \o EncodedTarget \o tail =>
                injected = [ok |-> TRUE, s |-> SrcOpen \o Target \o <<DQ>>]

====
